---- MODULE Spec2Model ----
(***************************************************************************)
(* A model of messagequeue.MessageQueue (src/messagequeue.py) running on   *)
(* top of dbutil.doTransaction (src/dbutil.py): the message_queue table,   *)
(* the store's AUTO_INCREMENT counter and clock, and a set of independent  *)
(* processes that call send, _readUnhandled, read, readAll, delete and     *)
(* changeTimeout through handles bound to a queue name.                    *)
(*                                                                         *)
(* `table` holds the committed rows.  The only multi-statement transaction *)
(* of the module is _readUnhandled (SELECT ... FOR UPDATE, then UPDATE):   *)
(* between its statements the selected row is X-locked by the transaction  *)
(* (txn[p].id) and its write is pending (txn[p].lock_time) until COMMIT.   *)
(* send, delete and changeTimeout are one statement in one transaction and *)
(* are one step each; they wait while another transaction holds the row.   *)
(*                                                                         *)
(* Time is the store's CURRENT_TIMESTAMP in whole seconds.  The clock is   *)
(* kept in the window 1..MaxTime: once `now` is MaxTime a tick moves every *)
(* stored lock time one second into the past instead (a timestamp of 0 is  *)
(* MySQL's zero TIMESTAMP and stays 0), which preserves every comparison   *)
(* and every difference the statements compute.                            *)
(*                                                                         *)
(* The module also models, each with variables and a specification of its  *)
(* own: the schema statements of MessageQueue.__init__ (`schema`), the     *)
(* scope of dbutil.doTransaction as its caller sees it (`tx`), the context *)
(* managers of src/temps.py over a small file system (`fs`, `ctx`), and    *)
(* the clusterers of src/clustering.py (`clusterer`, `edges`).             *)
(***************************************************************************)
EXTENDS Integers, FiniteSets, Sequences, TLC

\* ---------------------------------------------------------------- bounds
MaxId == 2
MaxTime == 1
HandleTimeout == 1

Procs == {"p1", "p2"}
Queues == {"qa", "qb"}
\* the send calls made: queue of the handle, message, timeout argument
\* (<<>> is timeout=None, <<t>> is timeout=t)
SendCalls == {<<"qa", "a", <<>>>>, <<"qa", "b", <<0>>>>, <<"qb", "b", <<>>>>}
\* the timeout argument of changeTimeout
ChangeTimeouts == {0, 1}
Ids == 1..MaxId
\* how a consumer calls _readUnhandled: directly, or through read()
Entries == {"raw", "read"}
\* read() without and with the keyword argument default; readAll() calls
\* _readUnhandled with entry "readAll"
ReadEntries == {"read", "readDefault"}
Messages == {"a", "b"}
\* the consumer that runs readAll() where a single consumer drains a queue
Drainer == "p1"

VARIABLES
    table,      \* committed rows of message_queue: id -> row
    nextId,     \* AUTO_INCREMENT of message_queue.id
    now,        \* the store's CURRENT_TIMESTAMP
    pc,         \* where each consumer process is
    call,       \* the _readUnhandled call a consumer is in
    txn,        \* the open _readUnhandled transaction of a consumer
    ret,        \* what the last _readUnhandled / read of a consumer returned or raised
    holder,     \* history: the consumer each id was last returned to by _readUnhandled
    drain,      \* history of a consumer's readAll() call: rows eligible at the call, ids yielded
    schema,     \* whether the table message_queue exists, and the last MessageQueue(...) call
    fs,         \* temps: the paths that exist, each a regular file or a directory
    ctx,        \* temps: the tmpfile() / tmpdir() with-statement of each process
    tx,         \* dbutil: the doTransaction with-statement of each process
    clusterer,  \* clustering: a SimpleEdgeClusterer or EdgeClusterer object
    edges       \* clustering, history: the edges given to cluster() so far

vars == <<table, nextId, now, pc, call, txn, ret, holder, drain, schema, fs, ctx,
          tx, clusterer, edges>>

\* the variables of messagequeue.MessageQueue, of temps, of clustering
queueVars == <<table, nextId, now, pc, call, txn, ret, holder, drain>>
tempsVars == <<fs, ctx>>
clusterVars == <<clusterer, edges>>

\* what the operations on an existing message_queue table leave alone
aux == <<schema, tempsVars, tx, clusterVars>>

\* ---------------------------------------------------------------- rows
NoTxn == [id |-> 0, message |-> "", lock_time |-> 0]
NoCall == [queue |-> "", entry |-> "", waitedFor |-> 0]
NoRet == [kind |-> "none"]
Nobody == "nobody"
NoDrain == [start |-> {}, seen |-> <<>>]

\* the table exists; no MessageQueue(...) call has been recorded
Created == [exists |-> TRUE, outcome |-> "none", drop |-> FALSE, create |-> FALSE,
            before |-> 0]

\* a process outside every tmpfile() / tmpdir() with-statement
NoCtx == [pc |-> "out", kind |-> "none", path |-> <<>>, made |-> 0, how |-> "none"]

\* a process outside every doTransaction with-statement
NoTx == [pc |-> "out", start |-> FALSE, calls |-> <<>>, exc |-> "", out |-> "none"]

\* no clusterer object
NoClusterer == [kind |-> "none"]

AuxInit ==
    /\ schema = Created
    /\ fs = <<>>
    /\ ctx = [p \in Procs |-> NoCtx]
    /\ tx = [p \in Procs |-> NoTx]
    /\ clusterer = NoClusterer
    /\ edges = {}

\* row as INSERT leaves it: create_time defaults to CURRENT_TIMESTAMP, locked
\* to FALSE, lock_time to the zero timestamp.  No statement reads create_time
\* (or read_time, which is left out): it stays as it was stored.
NewRow(queue, message, timeout) ==
    [queue |-> queue, message |-> message, timeout |-> timeout,
     create_time |-> now, locked |-> FALSE, lock_time |-> 0]

\* mutant: the WHERE clause without "NOT locked OR"
EligibleLockedOnly(row, queue, t) ==
    row.queue = queue /\ row.locked /\ row.lock_time < t

\* mutant: the WHERE clause without "OR lock_time < CURRENT_TIMESTAMP"
EligibleUnlockedOnly(row, queue, t) == row.queue = queue /\ ~row.locked

\* mutant: the WHERE clause without the lock condition
EligibleAnyLock(row, queue, t) == row.queue = queue

\* mutant: the WHERE clause without "queue = %s AND"
EligibleNoQueue(row, queue, t) == ~row.locked \/ row.lock_time < t

\* the WHERE clause of _readUnhandled's SELECT, CURRENT_TIMESTAMP being t
EligibleAt(row, queue, t) ==
    row.queue = queue /\ (~row.locked \/ row.lock_time < t)

Eligible(row, queue) == EligibleAt(row, queue, now)

\* rows X-locked by the open transactions of consumers other than p
HeldByOther(p) == {txn[o].id : o \in Procs \ {p}} \ {0}

\* rows X-locked by any open transaction
Held == {txn[o].id : o \in Procs} \ {0}

\* mutant: ORDER BY id DESC
MaxOf(S) == CHOOSE x \in S : \A y \in S : x >= y

Min(S) == CHOOSE x \in S : \A y \in S : x <= y

\* ---------------------------------------------------------------- Init
\* the table as _create leaves it
Init ==
    /\ table = <<>>
    /\ nextId = 1
    /\ now = 1
    /\ pc = [p \in Procs |-> "idle"]
    /\ call = [p \in Procs |-> NoCall]
    /\ txn = [p \in Procs |-> NoTxn]
    /\ ret = [p \in Procs |-> NoRet]
    /\ holder = [i \in Ids |-> Nobody]
    /\ drain = [p \in Procs |-> NoDrain]
    /\ AuxInit

\* ---------------------------------------------------------------- send
\* mutant: the id is the lowest free one instead of AUTO_INCREMENT
SendReusingId(queue, message, timeout) ==
    /\ nextId <= MaxId
    /\ Ids \ DOMAIN table # {}
    /\ LET t == IF timeout = <<>> THEN HandleTimeout ELSE timeout[1]
           i == CHOOSE x \in Ids \ DOMAIN table : \A y \in Ids \ DOMAIN table : x <= y
       IN  table' = (i :> NewRow(queue, message, t)) @@ table
    /\ nextId' = nextId + 1
    /\ UNCHANGED <<now, pc, call, txn, ret, holder, drain, aux>>

\* mutant: send ignores its timeout argument
SendDefaultTimeout(queue, message, timeout) ==
    /\ nextId <= MaxId
    /\ table' = (nextId :> NewRow(queue, message, HandleTimeout)) @@ table
    /\ nextId' = nextId + 1
    /\ UNCHANGED <<now, pc, call, txn, ret, holder, drain, aux>>

\* send(message, timeout) through a handle bound to `queue`, by any process
Send(queue, message, timeout) ==
    /\ nextId <= MaxId
    /\ LET t == IF timeout = <<>> THEN HandleTimeout ELSE timeout[1]
       IN  table' = (nextId :> NewRow(queue, message, t)) @@ table
    /\ nextId' = nextId + 1
    /\ UNCHANGED <<now, pc, call, txn, ret, holder, drain, aux>>

\* ------------------------------------------------------- _readUnhandled
\* mutant: the SELECT passes over rows that another transaction holds
CandidatesSkipLocked(queue) ==
    {i \in DOMAIN table : Eligible(table[i], queue) /\ i \notin Held}

\* ids of the rows the SELECT matches
Candidates(queue) == {i \in DOMAIN table : Eligible(table[i], queue)}

\* mutant: the SELECT without FOR UPDATE
RowFreeNoLock(p, i) == TRUE

\* FOR UPDATE: the statement waits while another transaction holds the row
RowFree(p, i) == i \notin HeldByOther(p)

\* mutant: read() ignores the keyword argument default
EmptyOutcomeRaises(entry) == [pc |-> "idle", kind |-> "EmptyQueueError"]

\* what the caller of _readUnhandled does with EmptyQueueError: read() with a
\* default yields the default, _readAllUnhandled ends the iteration, read()
\* without a default and a direct caller get the error
EmptyOutcome(entry) ==
    IF entry = "readDefault" THEN [pc |-> "indefault", kind |-> "default"]
    ELSE IF entry = "readAll" THEN [pc |-> "idle", kind |-> "StopIteration"]
    ELSE [pc |-> "idle", kind |-> "EmptyQueueError"]

\* where the caller of _readUnhandled is once it has the message: in the
\* with-block of read(), in the loop body of readAll(), or back in its own code
AfterLease(entry) ==
    IF entry \in {"read", "readDefault"} THEN "inblock"
    ELSE IF entry = "readAll" THEN "inloop"
    ELSE "idle"

\* START TRANSACTION; SELECT ... ORDER BY id ASC LIMIT 1 FOR UPDATE.
\* entry "raw" is a direct _readUnhandled call, "read" is read()'s call of it.
\* The statement takes the first matching row, waits for it when another
\* transaction holds it (and is evaluated again once that one has ended), or
\* raises EmptyQueueError when no row matches (doTransaction rolls back).
Select(p, queue, entry, waitedFor) ==
    IF Candidates(queue) = {}
    THEN /\ pc' = [pc EXCEPT ![p] = EmptyOutcome(entry).pc]
         /\ ret' = [ret EXCEPT ![p] = [kind |-> EmptyOutcome(entry).kind,
                                       waitedFor |-> waitedFor]]
         /\ call' = [call EXCEPT ![p] = NoCall]
         /\ UNCHANGED txn
    ELSE LET i == Min(Candidates(queue))
         IN  IF RowFree(p, i)
             THEN /\ pc' = [pc EXCEPT ![p] = "selected"]
                  /\ txn' = [txn EXCEPT ![p] = [id |-> i, message |-> table[i].message,
                                                lock_time |-> 0]]
                  /\ call' = [call EXCEPT ![p] =
                               [queue |-> IF entry = "readAll" THEN queue ELSE "",
                                entry |-> entry, waitedFor |-> waitedFor]]
                  /\ ret' = [ret EXCEPT ![p] = NoRet]
             ELSE /\ pc' = [pc EXCEPT ![p] = "waiting"]
                  /\ call' = [call EXCEPT ![p] = [queue |-> queue, entry |-> entry,
                                                  waitedFor |-> i]]
                  /\ ret' = [ret EXCEPT ![p] = NoRet]
                  /\ UNCHANGED txn

\* a consumer calls _readUnhandled on a handle bound to `queue`
LeaseSelect(p, queue, entry) ==
    /\ pc[p] = "idle"
    /\ Select(p, queue, entry, 0)
    /\ UNCHANGED <<table, nextId, now, holder, drain, aux>>

\* the row lock a SELECT waits for is released: the statement goes on
LeaseResume(p) ==
    /\ pc[p] = "waiting"
    /\ RowFree(p, call[p].waitedFor)
    /\ Select(p, call[p].queue, call[p].entry, call[p].waitedFor)
    /\ UNCHANGED <<table, nextId, now, holder, drain, aux>>

\* mutant: the UPDATE adds the timeout of the handle, not of the row
LeaseUpdateHandleTimeout(p) ==
    /\ pc[p] = "selected"
    /\ txn' = [txn EXCEPT ![p].lock_time = now + HandleTimeout]
    /\ pc' = [pc EXCEPT ![p] = "updated"]
    /\ UNCHANGED <<table, nextId, now, call, ret, holder, drain, aux>>

\* UPDATE ... SET locked = TRUE, lock_time = CURRENT_TIMESTAMP + timeout
LeaseUpdate(p) ==
    /\ pc[p] = "selected"
    /\ txn' = [txn EXCEPT ![p].lock_time =
                 IF txn[p].id \in DOMAIN table
                 THEN now + table[txn[p].id].timeout ELSE 0]
    /\ pc' = [pc EXCEPT ![p] = "updated"]
    /\ UNCHANGED <<table, nextId, now, call, ret, holder, drain, aux>>

\* mutant: the UPDATE without "locked = TRUE"
LockedTimeOnly(row, lock_time) == [row EXCEPT !.lock_time = lock_time]

\* mutant: create_time is a column with ON UPDATE CURRENT_TIMESTAMP
LockedTouchesCreateTime(row, lock_time) ==
    [row EXCEPT !.locked = TRUE, !.lock_time = lock_time, !.create_time = now]

\* the row after the transaction's UPDATE is committed
Locked(row, lock_time) == [row EXCEPT !.locked = TRUE, !.lock_time = lock_time]

\* COMMIT, and return id, message
LeaseCommit(p) ==
    /\ pc[p] = "updated"
    /\ table' = IF txn[p].id \in DOMAIN table
                THEN [table EXCEPT ![txn[p].id] = Locked(@, txn[p].lock_time)]
                ELSE table
    /\ txn' = [txn EXCEPT ![p] = NoTxn]
    /\ ret' = [ret EXCEPT ![p] = [kind |-> "msg", id |-> txn[p].id,
                                  message |-> txn[p].message,
                                  waitedFor |-> call[p].waitedFor]]
    /\ holder' = [i \in Ids |-> IF i = txn[p].id THEN p ELSE holder[i]]
    /\ pc' = [pc EXCEPT ![p] = AfterLease(call[p].entry)]
    /\ call' = [call EXCEPT ![p] = IF call[p].entry = "readAll"
                                   THEN [call[p] EXCEPT !.waitedFor = 0]
                                   ELSE NoCall]
    /\ drain' = [drain EXCEPT ![p].seen = IF call[p].entry = "readAll"
                                          THEN Append(@, txn[p].id) ELSE @]
    /\ UNCHANGED <<nextId, now, aux>>

\* -------------------------------------------------- delete, changeTimeout
\* mutant: a DELETE that matches no row
DeleteRowNoop(t, i) == t

\* mutant: changeTimeout(id, 0) removes the row instead of expiring its lock
SetLockTimeDrops(t, i, seconds) ==
    IF i \notin DOMAIN t THEN t
    ELSE IF seconds = 0 THEN [j \in DOMAIN t \ {i} |-> t[j]]
    ELSE [t EXCEPT ![i].lock_time = now + seconds]

\* mutant: changeTimeout inserts a row when no row has the id
SetLockTimeUpsert(t, i, seconds) ==
    IF i \in DOMAIN t THEN [t EXCEPT ![i].lock_time = now + seconds]
    ELSE (i :> [NewRow("qa", "a", 0) EXCEPT !.lock_time = now + seconds]) @@ t

\* mutant: the DELETE removes every row of the queue of the row with the id
DeleteRowWholeQueue(t, i) ==
    [j \in {k \in DOMAIN t : i \notin DOMAIN t \/ t[k].queue # t[i].queue} |-> t[j]]

\* mutant: changeTimeout(id, 0) also clears the locked flag
SetLockTimeUnlocks(t, i, seconds) ==
    IF i \in DOMAIN t
    THEN [t EXCEPT ![i].lock_time = now + seconds,
                   ![i].locked = IF seconds = 0 THEN FALSE ELSE @]
    ELSE t

\* DELETE FROM message_queue WHERE id = %s
DeleteRow(t, i) == [j \in DOMAIN t \ {i} |-> t[j]]

\* UPDATE message_queue SET lock_time = CURRENT_TIMESTAMP + %s WHERE id = %s
SetLockTime(t, i, seconds) ==
    IF i \in DOMAIN t THEN [t EXCEPT ![i].lock_time = now + seconds] ELSE t

\* delete(id) by any process; the statement waits while a transaction holds the row
Delete(i) ==
    /\ i \notin Held
    /\ table' = DeleteRow(table, i)
    /\ UNCHANGED <<nextId, now, pc, call, txn, ret, holder, drain, aux>>

\* changeTimeout(id, timeout) by any process
ChangeTimeout(i, seconds) ==
    /\ i \notin Held
    /\ table' = SetLockTime(table, i, seconds)
    /\ UNCHANGED <<nextId, now, pc, call, txn, ret, holder, drain, aux>>

\* delete(id) called on a handle bound to `queue`: the statement does not
\* mention self.queue
HandleDelete(queue, i) == Delete(i)

\* changeTimeout(id, timeout) called on a handle bound to `queue`
HandleChangeTimeout(queue, i, seconds) == ChangeTimeout(i, seconds)

\* ------------------------------------------------------- read / _handled
\* mutant: _handled deletes only while the consumer still holds the lease
BlockExitFenced(p) ==
    /\ pc[p] = "inblock"
    /\ RowFree(p, ret[p].id)
    /\ table' = IF holder[ret[p].id] = p THEN DeleteRow(table, ret[p].id) ELSE table
    /\ pc' = [pc EXCEPT ![p] = "idle"]
    /\ ret' = [ret EXCEPT ![p] = [kind |-> "exited"]]
    /\ UNCHANGED <<nextId, now, call, txn, holder, drain, aux>>

\* the with-block of read() exits normally: _handled calls delete(id)
BlockExit(p) ==
    /\ pc[p] = "inblock"
    /\ RowFree(p, ret[p].id)
    /\ table' = DeleteRow(table, ret[p].id)
    /\ pc' = [pc EXCEPT ![p] = "idle"]
    /\ ret' = [ret EXCEPT ![p] = [kind |-> "exited"]]
    /\ UNCHANGED <<nextId, now, call, txn, holder, drain, aux>>

\* the with-block raises: _handled calls changeTimeout(id, 0) and re-raises
BlockRaise(p) ==
    /\ pc[p] = "inblock"
    /\ RowFree(p, ret[p].id)
    /\ table' = SetLockTime(table, ret[p].id, 0)
    /\ pc' = [pc EXCEPT ![p] = "idle"]
    /\ ret' = [ret EXCEPT ![p] = [kind |-> "BlockError"]]
    /\ UNCHANGED <<nextId, now, call, txn, holder, drain, aux>>

\* read(default=...) found the queue empty and yielded the default; its
\* with-block exits normally: the generator of read() ends
DefaultExit(p) ==
    /\ pc[p] = "indefault"
    /\ pc' = [pc EXCEPT ![p] = "idle"]
    /\ ret' = [ret EXCEPT ![p] = [kind |-> "exitedDefault"]]
    /\ UNCHANGED <<table, nextId, now, call, txn, holder, drain, aux>>

\* the with-block around the default raises: the error passes through read()
DefaultRaise(p) ==
    /\ pc[p] = "indefault"
    /\ pc' = [pc EXCEPT ![p] = "idle"]
    /\ ret' = [ret EXCEPT ![p] = [kind |-> "BlockErrorDefault"]]
    /\ UNCHANGED <<table, nextId, now, call, txn, holder, drain, aux>>

\* ---------------------------------------------------------------- readAll
\* a consumer starts `for m in readAll()` on a handle bound to `queue`: the
\* generator runs up to the SELECT of its first _readUnhandled call
ReadAllCall(p, queue) ==
    /\ pc[p] = "idle"
    /\ Select(p, queue, "readAll", 0)
    /\ drain' = [drain EXCEPT ![p] = [start |-> Candidates(queue), seen |-> <<>>]]
    /\ UNCHANGED <<table, nextId, now, holder, aux>>

\* mutant: on resumption _handled calls changeTimeout(id, 0), not delete(id)
LoopNextNacks(p) ==
    /\ pc[p] = "inloop"
    /\ RowFree(p, ret[p].id)
    /\ table' = SetLockTime(table, ret[p].id, 0)
    /\ pc' = [pc EXCEPT ![p] = "next"]
    /\ ret' = [ret EXCEPT ![p] = [kind |-> "exited"]]
    /\ UNCHANGED <<nextId, now, call, txn, holder, drain, aux>>

\* mutant: the generator goes on to the next message without the delete
LoopNextKeeps(p) ==
    /\ pc[p] = "inloop"
    /\ pc' = [pc EXCEPT ![p] = "next"]
    /\ ret' = [ret EXCEPT ![p] = [kind |-> "exited"]]
    /\ UNCHANGED <<table, nextId, now, call, txn, holder, drain, aux>>

\* the loop body finished and the generator is resumed: _handled calls
\* delete(id), and readAll goes on to the next _readUnhandled call
LoopNext(p) ==
    /\ pc[p] = "inloop"
    /\ RowFree(p, ret[p].id)
    /\ table' = DeleteRow(table, ret[p].id)
    /\ pc' = [pc EXCEPT ![p] = "next"]
    /\ ret' = [ret EXCEPT ![p] = [kind |-> "exited"]]
    /\ UNCHANGED <<nextId, now, call, txn, holder, drain, aux>>

\* the SELECT of the next _readUnhandled call of _readAllUnhandled
LoopSelect(p) ==
    /\ pc[p] = "next"
    /\ Select(p, call[p].queue, "readAll", 0)
    /\ UNCHANGED <<table, nextId, now, holder, drain, aux>>

\* The generator of readAll is dropped while suspended at its yield.  When it
\* is closed, GeneratorExit is raised at the yield and the bare except of
\* _handled calls changeTimeout(id, 0); when the interpreter closes it is not
\* fixed by the code (at once with reference counting, or not before the
\* process ends).
Close(p, closed, kind) ==
    /\ pc[p] = "inloop"
    /\ RowFree(p, ret[p].id)
    /\ table' = IF closed THEN SetLockTime(table, ret[p].id, 0) ELSE table
    /\ pc' = [pc EXCEPT ![p] = "idle"]
    /\ ret' = [ret EXCEPT ![p] = [kind |-> kind, id |-> ret[p].id]]
    /\ call' = [call EXCEPT ![p] = NoCall]
    /\ UNCHANGED <<nextId, now, txn, holder, drain, aux>>

\* the loop body leaves the loop with break (or return), without an error
LoopBreak(p) == \E closed \in BOOLEAN : Close(p, closed, "break")

\* the loop body raises: the error goes up in the caller, not into the generator
LoopRaise(p) == \E closed \in BOOLEAN : Close(p, closed, "LoopError")

\* ---------------------------------------------------------------- clock
Earlier(t) == IF t > 0 THEN t - 1 ELSE 0

\* mutant: the store clears the locked flag of a row whose lock time has passed
TickUnlocks ==
    /\ now' = IF now < MaxTime THEN now + 1 ELSE now
    /\ table' = [i \in DOMAIN table |->
                   LET t == IF now < MaxTime THEN table[i].lock_time
                            ELSE Earlier(table[i].lock_time)
                   IN  [table[i] EXCEPT !.lock_time = t,
                                        !.locked = @ /\ t >= now']]
    /\ txn' = [p \in Procs |->
                 IF pc[p] = "updated" /\ now = MaxTime
                 THEN [txn[p] EXCEPT !.lock_time = Earlier(@)]
                 ELSE txn[p]]
    /\ UNCHANGED <<nextId, pc, call, ret, holder, drain, aux>>

\* one second passes
Tick ==
    /\ IF now < MaxTime
       THEN /\ now' = now + 1
            /\ UNCHANGED <<table, txn>>
       ELSE /\ now' = now
            /\ table' = [i \in DOMAIN table |->
                           [table[i] EXCEPT !.lock_time = Earlier(@)]]
            /\ txn' = [p \in Procs |->
                         IF pc[p] = "updated"
                         THEN [txn[p] EXCEPT !.lock_time = Earlier(@)]
                         ELSE txn[p]]
    /\ UNCHANGED <<nextId, pc, call, ret, holder, drain, aux>>

\* ---------------------------------------------------------------- Next
Next ==
    \/ \E c \in SendCalls : Send(c[1], c[2], c[3])
    \/ \E p \in Procs, q \in Queues, e \in Entries : LeaseSelect(p, q, e)
    \/ \E p \in Procs : LeaseResume(p)
    \/ \E p \in Procs : LeaseUpdate(p)
    \/ \E p \in Procs : LeaseCommit(p)
    \/ \E i \in Ids : Delete(i)
    \/ \E i \in Ids, s \in ChangeTimeouts : ChangeTimeout(i, s)
    \/ \E p \in Procs : BlockExit(p)
    \/ \E p \in Procs : BlockRaise(p)
    \/ Tick

Spec == Init /\ [][Next]_vars

\* Consumers that read through read(), with or without a default.
ReadNext ==
    \/ \E c \in SendCalls : Send(c[1], c[2], c[3])
    \/ \E p \in Procs, q \in Queues, e \in ReadEntries : LeaseSelect(p, q, e)
    \/ \E p \in Procs : LeaseResume(p)
    \/ \E p \in Procs : LeaseUpdate(p)
    \/ \E p \in Procs : LeaseCommit(p)
    \/ \E p \in Procs : BlockExit(p)
    \/ \E p \in Procs : BlockRaise(p)
    \/ \E p \in Procs : DefaultExit(p)
    \/ \E p \in Procs : DefaultRaise(p)
    \/ Tick

ReadSpec == Init /\ [][ReadNext]_vars

\* One queue with its producers and consumers, for the liveness claims.
LiveQueue == "qa"

LiveNext ==
    \/ \E c \in SendCalls : c[1] = LiveQueue /\ Send(c[1], c[2], c[3])
    \/ \E p \in Procs, e \in Entries : LeaseSelect(p, LiveQueue, e)
    \/ \E p \in Procs : LeaseResume(p)
    \/ \E p \in Procs : LeaseUpdate(p)
    \/ \E p \in Procs : LeaseCommit(p)
    \/ \E i \in Ids : Delete(i)
    \/ \E i \in Ids, s \in ChangeTimeouts : ChangeTimeout(i, s)
    \/ \E p \in Procs : BlockExit(p)
    \/ \E p \in Procs : BlockRaise(p)
    \/ Tick

\* The scheduling the liveness claims rest on: the store's clock advances, a
\* statement or COMMIT that can run does run, a with-block whose delete or
\* changeTimeout can run ends, and every consumer that is not inside a call
\* calls _readUnhandled on the queue again.
Fairness ==
    /\ WF_vars(Tick)
    /\ \A p \in Procs :
         /\ WF_vars(LeaseUpdate(p))
         /\ WF_vars(LeaseCommit(p))
         /\ WF_vars(LeaseResume(p))
         /\ WF_vars(BlockExit(p) \/ BlockRaise(p))
         /\ WF_vars(\E e \in Entries : LeaseSelect(p, LiveQueue, e))

LiveSpec == Init /\ [][LiveNext]_vars /\ Fairness

\* Consumers that delete every message they are given before its lock time
\* has passed, and never call changeTimeout or leave a read() block by an
\* exception: the clock does not get past the lock time of a row that is
\* still in the table (or of a lease about to be committed).
TimelyTick ==
    /\ Tick
    /\ \A i \in DOMAIN table' : table'[i].locked => table'[i].lock_time >= now'
    /\ \A p \in Procs : pc[p] = "updated" => txn'[p].lock_time >= now'

TimelyNext ==
    \/ \E c \in SendCalls : Send(c[1], c[2], c[3])
    \/ \E p \in Procs, q \in Queues, e \in Entries : LeaseSelect(p, q, e)
    \/ \E p \in Procs : LeaseResume(p)
    \/ \E p \in Procs : LeaseUpdate(p)
    \/ \E p \in Procs : LeaseCommit(p)
    \/ \E i \in Ids : Delete(i)
    \/ \E p \in Procs : BlockExit(p)
    \/ TimelyTick

TimelySpec == Init /\ [][TimelyNext]_vars

\* One consumer iterating readAll() over a table that nobody else changes.
\* The table at the start is any table that sends, leases by other consumers,
\* changeTimeout calls and the clock can have left behind.
OtherConsumer == "p2"

DrainRows ==
    [queue : Queues, message : Messages, timeout : {0, HandleTimeout},
     create_time : {1}, locked : BOOLEAN,
     lock_time : 0..(MaxTime + HandleTimeout)]

DrainTables == UNION {[D -> DrainRows] : D \in SUBSET Ids}

DrainInit ==
    /\ table \in DrainTables
    /\ nextId = MaxId + 1
    /\ now = 1
    /\ pc = [p \in Procs |-> "idle"]
    /\ call = [p \in Procs |-> NoCall]
    /\ txn = [p \in Procs |-> NoTxn]
    /\ ret = [p \in Procs |-> NoRet]
    /\ holder = [i \in Ids |-> IF i \in DOMAIN table /\ table[i].locked
                                THEN OtherConsumer ELSE Nobody]
    /\ drain = [p \in Procs |-> NoDrain]
    /\ AuxInit

\* the loop body always finishes without an error and without leaving the loop
DrainNext ==
    \/ \E q \in Queues : ReadAllCall(Drainer, q)
    \/ LeaseUpdate(Drainer)
    \/ LeaseCommit(Drainer)
    \/ LoopNext(Drainer)
    \/ LoopSelect(Drainer)
    \/ Tick

\* the store executes the statements it is sent and the loop body ends
DrainFairness ==
    /\ WF_vars(LeaseUpdate(Drainer))
    /\ WF_vars(LeaseCommit(Drainer))
    /\ WF_vars(LoopNext(Drainer))
    /\ WF_vars(LoopSelect(Drainer))

DrainSpec == DrainInit /\ [][DrainNext]_vars /\ DrainFairness

\* the loop body may also raise, or leave the loop with break
LoopSpecNext ==
    \/ DrainNext
    \/ LoopBreak(Drainer)
    \/ LoopRaise(Drainer)

LoopSpec == DrainInit /\ [][LoopSpecNext]_vars

\* Consumers that lease, call changeTimeout and leave read() blocks by an
\* error, on a queue whose rows were sent earlier, this second or before the
\* clock of the model began (create_time 0).
FrameRows ==
    [queue : {LiveQueue}, message : {"a"}, timeout : {0, HandleTimeout},
     create_time : 0..MaxTime, locked : {FALSE}, lock_time : {0}]

FrameInit ==
    /\ table \in UNION {[D -> FrameRows] : D \in SUBSET Ids}
    /\ nextId = MaxId + 1
    /\ now = 1
    /\ pc = [p \in Procs |-> "idle"]
    /\ call = [p \in Procs |-> NoCall]
    /\ txn = [p \in Procs |-> NoTxn]
    /\ ret = [p \in Procs |-> NoRet]
    /\ holder = [i \in Ids |-> Nobody]
    /\ drain = [p \in Procs |-> NoDrain]
    /\ AuxInit

FrameNext ==
    \/ \E p \in Procs, e \in Entries : LeaseSelect(p, LiveQueue, e)
    \/ \E p \in Procs : LeaseResume(p)
    \/ \E p \in Procs : LeaseUpdate(p)
    \/ \E p \in Procs : LeaseCommit(p)
    \/ \E i \in Ids, s \in ChangeTimeouts : ChangeTimeout(i, s)
    \/ \E p \in Procs : BlockRaise(p)
    \/ Tick

FrameSpec == FrameInit /\ [][FrameNext]_vars

\* ---------------------------------------------------------- store failures
\* the places of a _readUnhandled call at which a statement can raise:
\* START TRANSACTION or the SELECT (from "idle"), the SELECT while it waits
\* for a row lock, the UPDATE (from "selected"), COMMIT (from "updated")
TxnSteps == {"idle", "waiting", "selected", "updated"}

\* mutant: the except clause of doTransaction commits instead of rolling back
StoreFailsKeepsUpdate(p) ==
    /\ pc[p] \in TxnSteps
    /\ table' = IF pc[p] = "updated" /\ txn[p].id \in DOMAIN table
                THEN [table EXCEPT ![txn[p].id] = Locked(@, txn[p].lock_time)]
                ELSE table
    /\ txn' = [txn EXCEPT ![p] = NoTxn]
    /\ pc' = [pc EXCEPT ![p] = "idle"]
    /\ call' = [call EXCEPT ![p] = NoCall]
    /\ ret' = [ret EXCEPT ![p] = [kind |-> "StoreFailure", id |-> txn[p].id,
                                  at |-> pc[p]]]
    /\ UNCHANGED <<nextId, now, holder, drain, aux>>

\* A statement of consumer p's _readUnhandled call raises an error of the
\* store.  The error leaves the with-block of doTransaction, whose except
\* clause calls conn.rollback() and re-raises: the pending UPDATE is dropped,
\* the row lock is released, and the error goes up to the caller of
\* _readUnhandled (through read(), which catches EmptyQueueError only).  When
\* it is COMMIT that fails the store drops the transaction itself.
StoreFails(p) ==
    /\ pc[p] \in TxnSteps
    /\ txn' = [txn EXCEPT ![p] = NoTxn]
    /\ pc' = [pc EXCEPT ![p] = "idle"]
    /\ call' = [call EXCEPT ![p] = NoCall]
    /\ ret' = [ret EXCEPT ![p] = [kind |-> "StoreFailure", id |-> txn[p].id,
                                  at |-> pc[p]]]
    /\ UNCHANGED <<table, nextId, now, holder, drain, aux>>

\* send raises after its INSERT was executed (conn.insert_id() or COMMIT
\* fails): the row is rolled back; the AUTO_INCREMENT value it was given is
\* not handed out again
SendFails ==
    /\ nextId <= MaxId
    /\ nextId' = nextId + 1
    /\ UNCHANGED <<table, now, pc, call, txn, ret, holder, drain, aux>>

\* the queue LiveQueue with a store whose statements may fail
FailNext ==
    \/ LiveNext
    \/ \E p \in Procs : StoreFails(p)
    \/ SendFails

FailSpec == Init /\ [][FailNext]_vars

\* ------------------------------------------------- __init__, _create, _drop
\* the store as the schema statements see it
Store == [exists |-> schema.exists, rows |-> table, nextId |-> nextId, raised |-> FALSE]

\* a store without the table
Absent == [exists |-> FALSE, rows |-> <<>>, nextId |-> 1, raised |-> FALSE]

\* _drop: drop table if exists message_queue
DropTable(st) == Absent

\* _create: CREATE TABLE IF NOT EXISTS message_queue (...)
CreateTable(st) == IF st.exists THEN st ELSE [Absent EXCEPT !.exists = TRUE]

\* mutant: __init__ creates before it drops
ConstructCreateFirst(drop, create) ==
    /\ \A p \in Procs : pc[p] = "idle"
    /\ LET s1 == IF create THEN CreateTable(Store) ELSE Store
           s2 == IF drop /\ ~s1.raised THEN DropTable(s1) ELSE s1
       IN  /\ table' = s2.rows
           /\ nextId' = s2.nextId
           /\ schema' = [exists |-> s2.exists,
                         outcome |-> IF s2.raised THEN "raised" ELSE "ok",
                         drop |-> drop, create |-> create,
                         before |-> Cardinality(DOMAIN table)]
    /\ UNCHANGED <<now, pc, call, txn, ret, holder, drain, tempsVars, tx, clusterVars>>

\* MessageQueue(queue, manager, drop=drop, create=create): _drop() if drop,
\* then _create() if create; an error of _drop leaves __init__ before _create
Construct(drop, create) ==
    /\ \A p \in Procs : pc[p] = "idle"
    /\ LET s1 == IF drop THEN DropTable(Store) ELSE Store
           s2 == IF create /\ ~s1.raised THEN CreateTable(s1) ELSE s1
       IN  /\ table' = s2.rows
           /\ nextId' = s2.nextId
           /\ schema' = [exists |-> s2.exists,
                         outcome |-> IF s2.raised THEN "raised" ELSE "ok",
                         drop |-> drop, create |-> create,
                         before |-> Cardinality(DOMAIN table)]
    /\ UNCHANGED <<now, pc, call, txn, ret, holder, drain, tempsVars, tx, clusterVars>>

\* handles are constructed, with and without drop and create, between the
\* sends, deletes and changeTimeout calls of handles on an existing table
SchemaNext ==
    \/ \E drop \in BOOLEAN, create \in BOOLEAN : Construct(drop, create)
    \/ \E c \in SendCalls : schema.exists /\ Send(c[1], c[2], c[3])
    \/ \E i \in Ids : schema.exists /\ i \in DOMAIN table /\ Delete(i)
    \/ \E i \in Ids, s \in ChangeTimeouts :
         schema.exists /\ i \in DOMAIN table /\ ChangeTimeout(i, s)

SchemaSpec == Init /\ [][SchemaNext]_vars

\* ================================================================ temps
\* the names uuid.uuid4().hex can give, and the names a with-block uses for
\* what it makes under its directory
TmpNames == {"u1", "u2"}
BlockNames == {"x", "y"}

\* the paths: root/u, root/u/n, root/u/n/m (root exists throughout)
Paths ==
    {<<u>> : u \in TmpNames}
      \cup {<<u, n>> : u \in TmpNames, n \in BlockNames}
      \cup {<<u, n, m>> : u \in TmpNames, n \in BlockNames, m \in BlockNames}

\* os.path.isfile(path), os.path.isdir(path)
IsFile(f, path) == path \in DOMAIN f /\ f[path] = "file"
IsDir(f, path) == path \in DOMAIN f /\ f[path] = "dir"

\* path is a, or is under a
IsPrefix(a, path) == Len(a) <= Len(path) /\ SubSeq(path, 1, Len(a)) = a

\* the directory a path is in; root for root/u
Parent(path) == SubSeq(path, 1, Len(path) - 1)
ParentIsDir(f, path) == Len(path) = 1 \/ IsDir(f, Parent(path))

\* os.unlink(path) of a regular file
Unlink(f, path) == [q \in DOMAIN f \ {path} |-> f[q]]

\* mutant: os.rmdir in place of shutil.rmtree: what is under the directory stays
RmtreeTop(f, path) == [q \in DOMAIN f \ {path} |-> f[q]]

\* shutil.rmtree(path): the directory and everything under it
Rmtree(f, path) == [q \in {r \in DOMAIN f : ~IsPrefix(path, r)} |-> f[q]]

\* os.makedirs(path, mode=mode) of a path that does not exist
Makedirs(f, path) == (path :> "dir") @@ f

\* _tmppath: root/<uuid4>; a uuid4 is a name that no existing path and no
\* with-statement in progress has
TmpPaths ==
    {<<u>> : u \in TmpNames} \ (DOMAIN fs \cup {ctx[p].path : p \in Procs})

\* `with tmpfile() as path:` is entered: the path is made up, nothing is created
TmpfileEnter(p) ==
    /\ ctx[p].pc = "out"
    /\ \E path \in TmpPaths :
         ctx' = [ctx EXCEPT ![p] = [pc |-> "in", kind |-> "tmpfile", path |-> path,
                                    made |-> 0, how |-> "none"]]
    /\ UNCHANGED <<fs, queueVars, schema, tx, clusterVars>>

\* `with tmpdir() as path:` is entered: os.makedirs(path) before the yield
TmpdirEnter(p) ==
    /\ ctx[p].pc = "out"
    /\ \E path \in TmpPaths :
         /\ ctx' = [ctx EXCEPT ![p] = [pc |-> "in", kind |-> "tmpdir", path |-> path,
                                       made |-> 0, how |-> "none"]]
         /\ fs' = Makedirs(fs, path)
    /\ UNCHANGED <<queueVars, schema, tx, clusterVars>>

\* the paths the with-block of p works on: the yielded path of tmpfile(),
\* the paths under the yielded directory of tmpdir()
BlockPaths(p) ==
    IF ctx[p].kind = "tmpfile" THEN {ctx[p].path}
    ELSE {q \in Paths : IsPrefix(ctx[p].path, q) /\ q # ctx[p].path}

\* the with-block writes a regular file: open(path, 'w')
BlockWrite(p) ==
    /\ ctx[p].pc = "in"
    /\ \E path \in BlockPaths(p) :
         /\ path \notin DOMAIN fs
         /\ ParentIsDir(fs, path)
         /\ fs' = (path :> "file") @@ fs
    /\ ctx' = [ctx EXCEPT ![p].made = 1]
    /\ UNCHANGED <<queueVars, schema, tx, clusterVars>>

\* the with-block makes a directory: os.mkdir(path)
BlockMkdir(p) ==
    /\ ctx[p].pc = "in"
    /\ \E path \in BlockPaths(p) :
         /\ path \notin DOMAIN fs
         /\ ParentIsDir(fs, path)
         /\ Len(path) < 3
         /\ fs' = (path :> "dir") @@ fs
    /\ UNCHANGED <<ctx, queueVars, schema, tx, clusterVars>>

\* the with-block removes a regular file it works on: os.unlink(path)
BlockUnlink(p) ==
    /\ ctx[p].pc = "in"
    /\ \E path \in BlockPaths(p) :
         /\ IsFile(fs, path)
         /\ fs' = Unlink(fs, path)
    /\ UNCHANGED <<ctx, queueVars, schema, tx, clusterVars>>

\* mutant: the clean-up in an else clause, not in a finally clause
TmpfileExitElse(p, raising) ==
    /\ ctx[p].pc = "in" /\ ctx[p].kind = "tmpfile"
    /\ fs' = IF ~raising /\ IsFile(fs, ctx[p].path) THEN Unlink(fs, ctx[p].path) ELSE fs
    /\ ctx' = [ctx EXCEPT ![p] = [@ EXCEPT !.pc = "out", !.path = <<>>,
                                  !.how = IF raising THEN "raised" ELSE "normal"]]
    /\ UNCHANGED <<queueVars, schema, tx, clusterVars>>

\* the with-block of tmpfile() ends, normally or by an error: the finally
\* clause unlinks the path if it is a regular file
TmpfileExit(p, raising) ==
    /\ ctx[p].pc = "in" /\ ctx[p].kind = "tmpfile"
    /\ fs' = IF IsFile(fs, ctx[p].path) THEN Unlink(fs, ctx[p].path) ELSE fs
    /\ ctx' = [ctx EXCEPT ![p] = [@ EXCEPT !.pc = "out", !.path = <<>>,
                                  !.how = IF raising THEN "raised" ELSE "normal"]]
    /\ UNCHANGED <<queueVars, schema, tx, clusterVars>>

\* the with-block of tmpdir() ends, normally or by an error: the finally
\* clause calls shutil.rmtree(path)
TmpdirExit(p, raising) ==
    /\ ctx[p].pc = "in" /\ ctx[p].kind = "tmpdir"
    /\ fs' = Rmtree(fs, ctx[p].path)
    /\ ctx' = [ctx EXCEPT ![p] = [@ EXCEPT !.pc = "out", !.path = <<>>,
                                  !.how = IF raising THEN "raised" ELSE "normal"]]
    /\ UNCHANGED <<queueVars, schema, tx, clusterVars>>

TempsNext ==
    \/ \E p \in Procs : TmpfileEnter(p)
    \/ \E p \in Procs : TmpdirEnter(p)
    \/ \E p \in Procs : BlockWrite(p)
    \/ \E p \in Procs : BlockMkdir(p)
    \/ \E p \in Procs : BlockUnlink(p)
    \/ \E p \in Procs, raising \in BOOLEAN : TmpfileExit(p, raising)
    \/ \E p \in Procs, raising \in BOOLEAN : TmpdirExit(p, raising)

TempsSpec == Init /\ [][TempsNext]_vars

\* ================================================= dbutil.doTransaction
\* the most statements a with-block runs on the connection
MaxStatements == 2

\* what a with-block can raise: an error of a statement, an error of its own
\* code, and an exception that is not an Exception (caught by a bare except)
BodyErrors == {"StoreError", "ValueError", "KeyboardInterrupt"}

\* mutant: `except Exception:` in place of the bare `except:`
TxBodyRaisesExceptException(p, e, rollbackRaises) ==
    /\ tx[p].pc = "body"
    /\ tx' = [tx EXCEPT ![p] =
                [@ EXCEPT !.pc = "out",
                          !.exc = e,
                          !.calls = IF e = "KeyboardInterrupt" THEN @
                                    ELSE Append(@, "rollback"),
                          !.out = IF rollbackRaises /\ e # "KeyboardInterrupt"
                                  THEN "RollbackError" ELSE e]]
    /\ UNCHANGED <<queueVars, schema, tempsVars, clusterVars>>

\* `with doTransaction(conn, start) as conn:` is entered: the generator runs
\* up to its yield.  With start it executes START TRANSACTION first; when
\* that statement raises, the except clause calls conn.rollback() and
\* re-raises, and the with-block is never run.  An exception of
\* conn.rollback() itself replaces the one being handled.
TxEnter(p, start, startRaises, rollbackRaises) ==
    /\ tx[p].pc = "out"
    /\ tx' = [tx EXCEPT ![p] =
                IF start /\ startRaises
                THEN [pc |-> "out", start |-> start,
                      calls |-> <<"START", "rollback">>, exc |-> "StoreError",
                      out |-> IF rollbackRaises THEN "RollbackError" ELSE "StoreError"]
                ELSE [pc |-> "body", start |-> start,
                      calls |-> IF start THEN <<"START">> ELSE <<>>,
                      exc |-> "", out |-> "none"]]
    /\ UNCHANGED <<queueVars, schema, tempsVars, clusterVars>>

\* the with-block runs a statement on the connection, without an error
TxStatement(p) ==
    /\ tx[p].pc = "body"
    /\ Len(SelectSeq(tx[p].calls, LAMBDA c : c = "statement")) < MaxStatements
    /\ tx' = [tx EXCEPT ![p].calls = Append(@, "statement")]
    /\ UNCHANGED <<queueVars, schema, tempsVars, clusterVars>>

\* the with-block ends without an exception: the generator is resumed, and
\* its else clause calls conn.commit()
TxBodyExits(p, commitRaises) ==
    /\ tx[p].pc = "body"
    /\ tx' = [tx EXCEPT ![p] =
                [@ EXCEPT !.pc = "out",
                          !.calls = Append(@, "commit"),
                          !.out = IF commitRaises THEN "CommitError" ELSE "returned"]]
    /\ UNCHANGED <<queueVars, schema, tempsVars, clusterVars>>

\* the with-block raises e: the exception is thrown into the generator at
\* the yield, the bare except calls conn.rollback() and re-raises
TxBodyRaises(p, e, rollbackRaises) ==
    /\ tx[p].pc = "body"
    /\ tx' = [tx EXCEPT ![p] =
                [@ EXCEPT !.pc = "out",
                          !.exc = e,
                          !.calls = Append(@, "rollback"),
                          !.out = IF rollbackRaises THEN "RollbackError" ELSE e]]
    /\ UNCHANGED <<queueVars, schema, tempsVars, clusterVars>>

TxNext ==
    \/ \E p \in Procs, start \in BOOLEAN, startRaises \in BOOLEAN,
          rollbackRaises \in BOOLEAN : TxEnter(p, start, startRaises, rollbackRaises)
    \/ \E p \in Procs : TxStatement(p)
    \/ \E p \in Procs, commitRaises \in BOOLEAN : TxBodyExits(p, commitRaises)
    \/ \E p \in Procs, e \in BodyErrors, rollbackRaises \in BOOLEAN :
         TxBodyRaises(p, e, rollbackRaises)

TxSpec == Init /\ [][TxNext]_vars

\* ============================================================ clustering
\* the most cluster() calls an EdgeClusterer is given (its edge counts and
\* distance sums grow with every call)
MaxEdges == 4

Nodes == {"a", "b", "c", "d"}
Distances == {1, 2}

\* None; cluster ids start at 1, and `not id` is true of None only
None == 0
Truthy(id) == id # None /\ id # 0

\* d[k] = v, d.pop(k)
Put(d, k, v) == [x \in DOMAIN d \cup {k} |-> IF x = k THEN v ELSE d[x]]
Pop(d, k) == [x \in DOMAIN d \ {k} |-> d[x]]

\* SimpleEdgeClusterer()
NewSimpleEdgeClusterer ==
    [kind |-> "SimpleEdgeClusterer", clusterIdToNodes |-> <<>>,
     nodeIdToClusterId |-> <<>>, nextClusterId |-> 1]

\* EdgeClusterer(), with the default classifyNodeFunc and storeEdges=False
NewEdgeClusterer ==
    [kind |-> "EdgeClusterer", clusterIdToNodes |-> <<>>,
     nodeIdToClusterId |-> <<>>, nextClusterId |-> 1,
     clusterIdToSumDistances |-> <<>>, clusterIdToNumEdges |-> <<>>,
     clusterIdToNodeClasses |-> <<>>]

returnOneClass(node) == 1

\* the cluster id of a node, None if nodeIdToClusterId has no such key
ClusterIdOf(c, node) ==
    IF node \in DOMAIN c.nodeIdToClusterId THEN c.nodeIdToClusterId[node] ELSE None

\* both nodes are in no cluster: a new cluster of the two
NewCluster(c, fromNodeId, toNodeId) ==
    [c EXCEPT !.clusterIdToNodes = Put(@, c.nextClusterId, {fromNodeId, toNodeId}),
              !.nodeIdToClusterId =
                  Put(Put(@, fromNodeId, c.nextClusterId), toNodeId, c.nextClusterId),
              !.nextClusterId = @ + 1]

\* one node is in a cluster: the other is added to it
AddMissing(c, missingNodeId, presentClusterId) ==
    [c EXCEPT !.nodeIdToClusterId = Put(@, missingNodeId, presentClusterId),
              !.clusterIdToNodes =
                  Put(@, presentClusterId, @[presentClusterId] \cup {missingNodeId})]

\* the cluster to merge into the other: the from-cluster if it has fewer
\* nodes, else the to-cluster
Smaller(c, fromNodeClusterId, toNodeClusterId) ==
    IF Cardinality(c.clusterIdToNodes[fromNodeClusterId])
         < Cardinality(c.clusterIdToNodes[toNodeClusterId])
    THEN fromNodeClusterId ELSE toNodeClusterId

\* mutant: the nodes of the smaller cluster keep their cluster id
MergedKeepsIds(c, smallerClusterId, largerClusterId) ==
    [c EXCEPT !.clusterIdToNodes =
                  Pop(Put(@, largerClusterId, @[largerClusterId] \cup @[smallerClusterId]),
                      smallerClusterId)]

\* the nodes are in different clusters: the smaller is merged into the larger
Merged(c, smallerClusterId, largerClusterId) ==
    [c EXCEPT !.nodeIdToClusterId =
                  [n \in DOMAIN @ |->
                     IF n \in c.clusterIdToNodes[smallerClusterId]
                     THEN largerClusterId ELSE @[n]],
              !.clusterIdToNodes =
                  Pop(Put(@, largerClusterId, @[largerClusterId] \cup @[smallerClusterId]),
                      smallerClusterId)]

\* SimpleEdgeClusterer.cluster(edge), edge[0:2] being (fromNodeId, toNodeId)
SimpleCluster(c, fromNodeId, toNodeId) ==
    LET fromNodeClusterId == ClusterIdOf(c, fromNodeId)
        toNodeClusterId == ClusterIdOf(c, toNodeId)
    IN  IF ~Truthy(fromNodeClusterId) /\ ~Truthy(toNodeClusterId)
        THEN NewCluster(c, fromNodeId, toNodeId)
        ELSE IF ~Truthy(fromNodeClusterId) \/ ~Truthy(toNodeClusterId)
        THEN IF Truthy(fromNodeClusterId)
             THEN AddMissing(c, toNodeId, fromNodeClusterId)
             ELSE AddMissing(c, fromNodeId, toNodeClusterId)
        ELSE IF fromNodeClusterId = toNodeClusterId
        THEN c
        ELSE LET smallerClusterId == Smaller(c, fromNodeClusterId, toNodeClusterId)
                 largerClusterId == IF smallerClusterId = fromNodeClusterId
                                    THEN toNodeClusterId ELSE fromNodeClusterId
             IN  Merged(c, smallerClusterId, largerClusterId)

\* EdgeClusterer.cluster(edge), edge being (fromNodeId, toNodeId, distance)
EdgeCluster(c, fromNodeId, toNodeId, distance) ==
    LET fromNodeClusterId == ClusterIdOf(c, fromNodeId)
        toNodeClusterId == ClusterIdOf(c, toNodeId)
    IN  IF ~Truthy(fromNodeClusterId) /\ ~Truthy(toNodeClusterId)
        THEN [NewCluster(c, fromNodeId, toNodeId) EXCEPT
                !.clusterIdToNodeClasses =
                    Put(@, c.nextClusterId,
                        {returnOneClass(fromNodeId), returnOneClass(toNodeId)}),
                !.clusterIdToSumDistances = Put(@, c.nextClusterId, distance),
                !.clusterIdToNumEdges = Put(@, c.nextClusterId, 1)]
        ELSE IF ~Truthy(fromNodeClusterId) \/ ~Truthy(toNodeClusterId)
        THEN LET missingNodeId == IF Truthy(fromNodeClusterId) THEN toNodeId
                                  ELSE fromNodeId
                 presentClusterId == IF Truthy(fromNodeClusterId) THEN fromNodeClusterId
                                     ELSE toNodeClusterId
             IN  [AddMissing(c, missingNodeId, presentClusterId) EXCEPT
                    !.clusterIdToNodeClasses[presentClusterId] =
                        @ \cup {returnOneClass(missingNodeId)},
                    !.clusterIdToSumDistances[presentClusterId] = @ + distance,
                    !.clusterIdToNumEdges[presentClusterId] = @ + 1]
        ELSE IF fromNodeClusterId = toNodeClusterId
        THEN [c EXCEPT !.clusterIdToSumDistances[fromNodeClusterId] = @ + distance,
                       !.clusterIdToNumEdges[fromNodeClusterId] = @ + 1]
        ELSE LET smallerClusterId == Smaller(c, fromNodeClusterId, toNodeClusterId)
                 largerClusterId == IF smallerClusterId = fromNodeClusterId
                                    THEN toNodeClusterId ELSE fromNodeClusterId
             IN  [Merged(c, smallerClusterId, largerClusterId) EXCEPT
                    !.clusterIdToNodeClasses =
                        Pop(Put(@, largerClusterId,
                                @[largerClusterId] \cup @[smallerClusterId]),
                            smallerClusterId),
                    !.clusterIdToSumDistances =
                        Pop(Put(@, largerClusterId,
                                @[largerClusterId] + distance + @[smallerClusterId]),
                            smallerClusterId),
                    !.clusterIdToNumEdges =
                        Pop(Put(@, largerClusterId,
                                @[largerClusterId] + 1 + @[smallerClusterId]),
                            smallerClusterId)]

\* a clusterer object is made
Construction(object) ==
    /\ clusterer = NoClusterer
    /\ clusterer' = object
    /\ edges' = {}
    /\ UNCHANGED <<queueVars, schema, tempsVars, tx>>

\* clusterer.cluster((fromNodeId, toNodeId)) on a SimpleEdgeClusterer
ClusterSimple(fromNodeId, toNodeId) ==
    /\ clusterer.kind = "SimpleEdgeClusterer"
    /\ clusterer' = SimpleCluster(clusterer, fromNodeId, toNodeId)
    /\ edges' = edges \cup {{fromNodeId, toNodeId}}
    /\ UNCHANGED <<queueVars, schema, tempsVars, tx>>

\* the cluster() calls an EdgeClusterer has been given
NumEdges(c) ==
    LET RECURSIVE Sum(_)
        Sum(S) == IF S = {} THEN 0
                  ELSE LET k == CHOOSE x \in S : TRUE
                       IN  c.clusterIdToNumEdges[k] + Sum(S \ {k})
    IN  Sum(DOMAIN c.clusterIdToNumEdges)

\* clusterer.cluster((fromNodeId, toNodeId, distance)) on an EdgeClusterer
ClusterEdge(fromNodeId, toNodeId, distance) ==
    /\ clusterer.kind = "EdgeClusterer"
    /\ NumEdges(clusterer) < MaxEdges
    /\ clusterer' = EdgeCluster(clusterer, fromNodeId, toNodeId, distance)
    /\ edges' = edges \cup {{fromNodeId, toNodeId}}
    /\ UNCHANGED <<queueVars, schema, tempsVars, tx>>

ClusterNext ==
    \/ Construction(NewSimpleEdgeClusterer)
    \/ Construction(NewEdgeClusterer)
    \/ \E f \in Nodes, t \in Nodes : ClusterSimple(f, t)
    \/ \E f \in Nodes, t \in Nodes, d \in Distances : ClusterEdge(f, t, d)

ClusterSpec == Init /\ [][ClusterNext]_vars

\* ================================================================ claims
\* a row a lease may take: unlocked, or locked with a lock time in the past
FreeOrStale(row, t) == ~row.locked \/ row.lock_time < t

\* consumer p executes the SELECT of _readUnhandled on queue q in this step
\* (a step that is not a stuttering step)
Selects(p, q) ==
    /\ pc[p] \in {"idle", "waiting"}
    /\ pc'[p] # pc[p] \/ ret'[p] # ret[p]
    /\ \/ \E e \in Entries : LeaseSelect(p, q, e)
       \/ LeaseResume(p) /\ call[p].queue = q

\* consumer p's _readUnhandled commits and returns in this step
Returns(p) == pc[p] = "updated" /\ pc'[p] # "updated"

\* consumer p leaves the with-block of read() in this step
LeavesBlock(p) == pc[p] = "inblock" /\ pc'[p] # "inblock"

\* no two open transactions hold the same row
MutualExclusion ==
    \A p \in Procs : \A o \in Procs \ {p} : txn[p].id # 0 => txn[p].id # txn[o].id

\* ---------------------------------------------------------------- C1
\* C1 as stated: a _readUnhandled call that had to wait for a concurrent
\* call's transaction on a row never returns that same row.
C1_Original ==
    \A p \in Procs : ret[p].kind = "msg" => ret[p].waitedFor # ret[p].id

\* C1 as amended: two open _readUnhandled transactions never hold the same row,
\* and a call that waited for a concurrent call's transaction takes the row it
\* waited for only when that row is by then locked by the other consumer with a
\* lock time that has already passed (the lease just granted has expired).
C1_NoDoubleClaim ==
    /\ []MutualExclusion
    /\ [][\A p \in Procs :
            (pc[p] = "waiting" /\ pc'[p] = "selected"
                /\ txn'[p].id = call[p].waitedFor)
            => LET i == call[p].waitedFor
               IN  /\ i \in DOMAIN table
                   /\ table[i].locked
                   /\ table[i].lock_time < now
                   /\ holder[i] \in Procs \ {p}]_vars

\* one of two concurrent calls returned the row, the other one waited for it
\* and then raised EmptyQueueError
C1_Witness ==
    \E p \in Procs : \E o \in Procs \ {p} :
        /\ ret[p].kind = "EmptyQueueError"
        /\ ret[p].waitedFor # 0
        /\ ret[o].kind = "msg"
        /\ ret[o].id = ret[p].waitedFor

\* ---------------------------------------------------------------- C2
\* C2: whenever _readUnhandled on a queue would raise EmptyQueueError, every
\* row of that queue in the table has been returned by some _readUnhandled
\* call, and a call returns the message stored in the row whose id it returns.
C2_AtLeastOnce ==
    /\ \A q \in Queues :
         Candidates(q) = {} =>
            \A i \in DOMAIN table : table[i].queue = q => holder[i] # Nobody
    /\ \A p \in Procs :
         (ret[p].kind = "msg" /\ ret[p].id \in DOMAIN table)
            => ret[p].message = table[ret[p].id].message

\* two messages were sent to qa, both were returned, and a further call raised
C2_Witness ==
    /\ DOMAIN table = {1, 2}
    /\ \A i \in {1, 2} : table[i].queue = "qa" /\ holder[i] # Nobody
    /\ Candidates("qa") = {}
    /\ \E p \in Procs : ret[p].kind = "EmptyQueueError"

\* ---------------------------------------------------------------- C3
\* C3: the row a SELECT of _readUnhandled takes is a row of the handle's queue
\* that is unlocked or has an expired lock, and no such row of that queue has
\* a lower id; the call returns the id and message of the row it took.
C3_LowestEligible ==
    [][\A p \in Procs :
         /\ \A q \in Queues :
              (Selects(p, q) /\ pc'[p] = "selected")
              => LET i == txn'[p].id
                 IN  /\ i \in DOMAIN table
                     /\ table[i].queue = q
                     /\ FreeOrStale(table[i], now)
                     /\ \A j \in DOMAIN table :
                          (table[j].queue = q /\ FreeOrStale(table[j], now))
                             => i <= j
         /\ Returns(p)
              => /\ ret'[p].kind = "msg"
                 /\ ret'[p].id = txn[p].id
                 /\ ret'[p].message = table[txn[p].id].message]_vars

\* after send(a), send(b) on qa a call returned a's id while b was eligible
C3_Witness ==
    /\ DOMAIN table = {1, 2}
    /\ table[1].queue = "qa" /\ table[1].message = "a"
    /\ table[2].queue = "qa" /\ table[2].message = "b" /\ ~table[2].locked
    /\ \E p \in Procs : ret[p].kind = "msg" /\ ret[p].id = 1 /\ ret[p].message = "a"

\* ---------------------------------------------------------------- C4
\* C4: the row a _readUnhandled call returns is, when the call commits, not
\* locked with a lock time at or after the store's clock; and every unlocked
\* row is matched by the SELECT on its queue.
C4_LeaseExclusive ==
    /\ [][\A p \in Procs :
            Returns(p) => /\ txn[p].id \in DOMAIN table
                          /\ FreeOrStale(table[txn[p].id], now)]_vars
    /\ [](\A i \in DOMAIN table :
            ~table[i].locked => i \in Candidates(table[i].queue))

\* a call has taken a locked row whose lease is stale, next to a row of the
\* same queue whose lease is fresh
C4_Witness ==
    \E p \in Procs : \E j \in DOMAIN table :
        /\ pc[p] = "updated"
        /\ table[txn[p].id].locked
        /\ j < txn[p].id
        /\ table[j].queue = table[txn[p].id].queue
        /\ table[j].locked /\ table[j].lock_time >= now

\* ---------------------------------------------------------------- C5
\* C5: right after a _readUnhandled of a row sent with timeout 0 commits, and
\* right after changeTimeout(id, 0) (also from a raising read() block), the
\* row is matched by the SELECT on its queue, the clock not having moved.
C5_ImmediateReLease ==
    [][/\ \A p \in Procs :
            (Returns(p) /\ table[txn[p].id].timeout = 0
                /\ txn[p].lock_time = now)
            => EligibleAt(table'[txn[p].id], table[txn[p].id].queue, now')
       /\ \A p \in Procs :
            (LeavesBlock(p) /\ ret'[p].kind = "BlockError"
                /\ ret[p].id \in DOMAIN table)
            => EligibleAt(table'[ret[p].id], table[ret[p].id].queue, now')
       /\ \A i \in DOMAIN table :
            ChangeTimeout(i, 0)
            => EligibleAt(table'[i], table[i].queue, now')]_vars

\* ---------------------------------------------------------------- C6
\* C6: when the block of read() exits normally the row is deleted and the other
\* rows are untouched; when it raises, the row stays with only its lock time
\* set to the clock, and the error reaches the caller; a deleted id is never in
\* the table again and no SELECT takes an id that is not in the table.
C6_ScopedRead ==
    [][/\ \A p \in Procs :
            LeavesBlock(p)
            => LET i == ret[p].id
               IN  \/ /\ ret'[p].kind = "exited"
                      /\ DOMAIN table' = DOMAIN table \ {i}
                      /\ \A j \in DOMAIN table' : table'[j] = table[j]
                   \/ /\ ret'[p].kind = "BlockError"
                      /\ DOMAIN table' = DOMAIN table
                      /\ \A j \in DOMAIN table :
                           table'[j] = IF j = i
                                       THEN [table[j] EXCEPT !.lock_time = now]
                                       ELSE table[j]
       /\ \A i \in Ids :
            (i < nextId /\ i \notin DOMAIN table) => i \notin DOMAIN table'
       /\ \A p \in Procs :
            (pc[p] # "selected" /\ pc'[p] = "selected") => txn'[p].id \in DOMAIN table]_vars

\* a read() block raised and the row it was given is still there, its lock
\* time set to the clock
C6_Witness ==
    \E p \in Procs : \E i \in DOMAIN table :
        /\ ret[p].kind = "BlockError"
        /\ holder[i] = p
        /\ table[i].locked
        /\ table[i].lock_time = now

\* ---------------------------------------------------------------- C7
\* a row whose lease has expired: locked, with a lock time in the past
Stale(i) ==
    i \in DOMAIN table /\ table[i].locked /\ table[i].lock_time < now

\* a row of the same queue with a lower id that a SELECT would match
LowerEligible(i) ==
    \E j \in DOMAIN table :
        j < i /\ i \in DOMAIN table /\ Eligible(table[j], table[i].queue)

\* the row is given out again: a _readUnhandled transaction has taken it
Taken(i) == i \in Held

\* C7 as stated: with consumers that keep calling _readUnhandled, a row whose
\* lease has expired is eventually taken by a call again (or deleted, or its
\* lock time moved).
C7_Original == \A i \in Ids : Stale(i) ~> (Taken(i) \/ ~Stale(i))

\* C7 as amended: a row whose lease has expired is matched by the SELECT on its
\* queue, and with consumers that keep calling _readUnhandled it is taken
\* again unless rows of its queue with a lower id keep being eligible (the
\* SELECT takes the lowest id first).
C7_CrashRecovery ==
    /\ [](\A i \in Ids : Stale(i) => i \in Candidates(table[i].queue))
    /\ \A i \in Ids : []<>(Taken(i) \/ ~Stale(i) \/ LowerEligible(i))

\* a row whose lease expired has been returned a second time, to the other
\* consumer, and its new lease is running
C7_Witness ==
    \E i \in DOMAIN table : \E p \in Procs :
        /\ ret[p].kind = "msg" /\ ret[p].id = i
        /\ holder[i] = p
        /\ pc[p] = "idle"
        /\ table[i].lock_time > now
        /\ \E o \in Procs \ {p} : ret[o].kind = "msg" /\ ret[o].id = i /\ pc[o] = "idle"

\* ---------------------------------------------------------------- C8
\* C8: a row leaves the table only in a step that is delete(id) of its id,
\* directly or from a read() block that exits normally.
C8_NoLossBeforeAck ==
    [][\A i \in DOMAIN table :
         i \notin DOMAIN table'
         => \/ Delete(i)
            \/ \E p \in Procs : BlockExit(p) /\ ret[p].id = i]_vars

\* a row was leased, its block raised, its lock time has passed, and it is
\* still in the table
C8_Witness ==
    \E p \in Procs : \E i \in DOMAIN table :
        /\ ret[p].kind = "BlockError"
        /\ holder[i] = p
        /\ table[i].locked
        /\ table[i].lock_time < now

\* ---------------------------------------------------------------- C9
\* C9: delete(id) leaves no row with that id, an id that was handed out and is
\* not in the table is never in the table again, and delete of an id that is
\* not in the table neither waits nor changes the table.
C9_AckIdempotent ==
    /\ [](\A i \in Ids \ DOMAIN table :
            i \notin Held /\ DeleteRow(table, i) = table)
    /\ [][/\ \A i \in Ids : Delete(i) => i \notin DOMAIN table'
          /\ \A i \in Ids :
               (i < nextId /\ i \notin DOMAIN table) => i \notin DOMAIN table'
          /\ \A p \in Procs :
               (pc[p] # "selected" /\ pc'[p] = "selected")
                  => txn'[p].id \in DOMAIN table]_vars

\* id 1 was returned by a lease and deleted, and a message was sent afterwards
C9_Witness ==
    /\ holder[1] # Nobody
    /\ DOMAIN table = {2}
    /\ ~table[2].locked

\* ---------------------------------------------------------------- C10
\* a consumer in a read() block whose row has since been returned to another
\* consumer
Superseded(p) ==
    /\ pc[p] = "inblock"
    /\ holder[ret[p].id] # p

\* C10 as stated: the delete or changeTimeout(id, 0) that _handled issues for
\* a superseded consumer does not change the table.
C10_Original ==
    [][\A p \in Procs : (Superseded(p) /\ LeavesBlock(p)) => table' = table]_vars

\* C10 as amended: the delete or changeTimeout(id, 0) issued for a superseded
\* consumer does not raise and acts on the id whoever holds the lease: delete
\* removes the row, changeTimeout sets its lock time to the clock; the table
\* is unchanged only when the row is no longer in it.
C10_LateAck ==
    [][\A p \in Procs :
         (Superseded(p) /\ LeavesBlock(p))
         => LET i == ret[p].id
            IN  /\ ret'[p].kind \in {"exited", "BlockError"}
                /\ ret'[p].kind = "exited" => i \notin DOMAIN table'
                /\ (ret'[p].kind = "BlockError" /\ i \in DOMAIN table)
                      => table'[i] = [table[i] EXCEPT !.lock_time = now]
                /\ i \notin DOMAIN table => table' = table]_vars

\* a superseded consumer's block exited and the row is gone while the consumer
\* the row was returned to afterwards is still in its block
C10_Witness ==
    \E p \in Procs : \E o \in Procs \ {p} :
        /\ ret[p].kind = "exited"
        /\ pc[o] = "inblock"
        /\ holder[ret[o].id] = o
        /\ ret[o].id \notin DOMAIN table

\* ---------------------------------------------------------------- C11
\* C11: for every id that is not in the table (never handed out, or deleted),
\* delete(id) and changeTimeout(id, s) wait for nothing and leave the table as
\* it is; and when read()'s block ends for an id that is no longer in the table,
\* the delete or changeTimeout(id, 0) of _handled changes no row and the block
\* ends as it would have otherwise.
C11_AbsentIdNoop ==
    /\ [](\A i \in Ids \ DOMAIN table :
            /\ i \notin Held
            /\ DeleteRow(table, i) = table
            /\ \A s \in ChangeTimeouts : SetLockTime(table, i, s) = table)
    /\ [][\A p \in Procs :
            (LeavesBlock(p) /\ ret[p].id \notin DOMAIN table)
            => /\ table' = table
               /\ ret'[p].kind \in {"exited", "BlockError"}]_vars

\* a consumer is in read()'s block for an id that another actor has deleted
\* while another row is in the table
C11_Witness ==
    \E p \in Procs :
        /\ pc[p] = "inblock"
        /\ ret[p].id \notin DOMAIN table
        /\ table # <<>>

\* ---------------------------------------------------------------- C12
\* how the outcome "_readUnhandled raised EmptyQueueError" shows in ret
EmptyKinds == {"EmptyQueueError", "default", "StopIteration"}

\* C12: the SELECT of a _readUnhandled call ends the call with EmptyQueueError
\* exactly when no row of the handle's queue is unlocked or locked with a lock
\* time in the past at that moment; the call then leaves the table and the
\* id counter as they were and no transaction open.
C12_EmptyExactly ==
    [][\A p \in Procs : \A q \in Queues :
         Selects(p, q)
         => /\ (ret'[p].kind \in EmptyKinds)
                <=> ~\E i \in DOMAIN table :
                       table[i].queue = q /\ FreeOrStale(table[i], now)
            /\ (ret'[p].kind \in EmptyKinds)
                => /\ table' = table
                   /\ nextId' = nextId
                   /\ txn'[p] = NoTxn]_vars

\* a call on qa raised EmptyQueueError while qa holds a row with a running
\* lease and qb holds an unlocked row
C12_Witness ==
    \E p \in Procs : \E i \in DOMAIN table : \E j \in DOMAIN table :
        /\ ret[p].kind = "EmptyQueueError"
        /\ table[i].queue = "qa" /\ table[i].locked /\ table[i].lock_time >= now
        /\ table[j].queue = "qb" /\ ~table[j].locked
        /\ Candidates("qa") = {}

\* ---------------------------------------------------------------- C13
\* C13: with consumers that delete in time and never call changeTimeout, no
\* _readUnhandled call returns an id that a call has returned before, and
\* whenever the SELECT on a queue matches no row every row of that queue still
\* in the table has been returned (once).
C13_ExactlyOnce ==
    /\ [][\A p \in Procs :
            Returns(p) => /\ txn[p].id \in DOMAIN table
                          /\ holder[txn[p].id] = Nobody
                          /\ ~table[txn[p].id].locked]_vars
    /\ [](\A q \in Queues :
            Candidates(q) = {} =>
               \A i \in DOMAIN table : table[i].queue = q => holder[i] # Nobody)

\* two messages were returned, one to each consumer, and both were deleted;
\* one of the calls had waited for the row the concurrent call took
C13_Witness ==
    /\ table = <<>>
    /\ holder[1] # Nobody /\ holder[2] # Nobody /\ holder[1] # holder[2]
    /\ \E p \in Procs : ret[p].kind = "msg" /\ ret[p].waitedFor # 0

\* ---------------------------------------------------------------- C14
\* the rows of the queues other than q are the same before and after the step
OthersUnchanged(q) ==
    \A j \in DOMAIN table :
        table[j].queue # q => (j \in DOMAIN table' /\ table'[j] = table[j])

\* C14 as stated: send, _readUnhandled, delete(id) and changeTimeout(id, s)
\* made through a handle bound to queue q leave the rows of every other queue
\* as they are, for every id, and _readUnhandled on q takes only rows of q.
C14_Original ==
    [][\A q \in Queues :
         /\ (nextId' # nextId
                /\ \E c \in SendCalls : c[1] = q /\ Send(c[1], c[2], c[3]))
                => OthersUnchanged(q)
         /\ \A p \in Procs :
              Selects(p, q)
              => /\ OthersUnchanged(q)
                 /\ pc'[p] = "selected" => table[txn'[p].id].queue = q
         /\ (\E i \in Ids : HandleDelete(q, i)) => OthersUnchanged(q)
         /\ (\E i \in Ids, s \in ChangeTimeouts : HandleChangeTimeout(q, i, s))
                => OthersUnchanged(q)]_vars

\* C14 as amended: send and _readUnhandled through a handle bound to q leave
\* the rows of the other queues as they are and _readUnhandled takes only rows
\* of q; delete(id) and changeTimeout(id, s) act on the row with that id
\* whichever queue it belongs to (delete removes it, changeTimeout sets its
\* lock time) and leave every other row of every queue as it is.
C14_QueueIndependence ==
    [][\A q \in Queues :
         /\ (nextId' # nextId
                /\ \E c \in SendCalls : c[1] = q /\ Send(c[1], c[2], c[3]))
                => OthersUnchanged(q)
         /\ \A p \in Procs :
              Selects(p, q)
              => /\ OthersUnchanged(q)
                 /\ pc'[p] = "selected" => table[txn'[p].id].queue = q
         /\ \A i \in Ids :
              HandleDelete(q, i)
              => /\ DOMAIN table' = DOMAIN table \ {i}
                 /\ \A j \in DOMAIN table' : table'[j] = table[j]
         /\ \A i \in Ids, s \in ChangeTimeouts :
              HandleChangeTimeout(q, i, s)
              => /\ DOMAIN table' = DOMAIN table
                 /\ \A j \in DOMAIN table :
                      table'[j] = IF j = i
                                  THEN [table[j] EXCEPT !.lock_time = now + s]
                                  ELSE table[j]]_vars

\* a row of qa was deleted and the lock time of an unleased row of qb was set,
\* each by a delete or changeTimeout with its id
C14_Witness ==
    /\ DOMAIN table = {2}
    /\ nextId = 3
    /\ table[2].queue = "qb"
    /\ ~table[2].locked
    /\ table[2].lock_time > now

\* ---------------------------------------------------------------- C15
\* consumer p executes the SELECT of the _readUnhandled call that read()
\* makes, on queue q, read() having been called as e says
ReadSelects(p, q, e) ==
    /\ pc[p] \in {"idle", "waiting"}
    /\ pc'[p] # pc[p] \/ ret'[p] # ret[p]
    /\ \/ LeaseSelect(p, q, e)
       \/ LeaseResume(p) /\ call[p].queue = q /\ call[p].entry = e

\* C15: when read() finds no row of its queue eligible it leases nothing and
\* changes no row; with a default it yields the default and runs the block,
\* and the block's normal exit or exception changes no row either; without a
\* default EmptyQueueError reaches the caller and the block is not run.
C15_ReadEmpty ==
    /\ [][\A p \in Procs :
            /\ \A q \in Queues : \A e \in ReadEntries :
                 (ReadSelects(p, q, e) /\ Candidates(q) = {})
                 => /\ table' = table
                    /\ holder' = holder
                    /\ txn'[p] = NoTxn
                    /\ e = "readDefault"
                          => pc'[p] = "indefault" /\ ret'[p].kind = "default"
                    /\ e = "read"
                          => pc'[p] = "idle" /\ ret'[p].kind = "EmptyQueueError"
            /\ (pc[p] = "indefault" /\ pc'[p] # "indefault")
                 => /\ table' = table
                    /\ pc'[p] = "idle"
                    /\ ret'[p].kind \in {"exitedDefault", "BlockErrorDefault"}]_vars
    /\ [](\A p \in Procs :
            pc[p] = "indefault" => txn[p] = NoTxn /\ ret[p].kind = "default")

\* a block that was given the default raised while the other consumer, without
\* a default, got EmptyQueueError, and the row whose lease is running is there
C15_Witness ==
    \E p \in Procs : \E o \in Procs \ {p} : \E i \in DOMAIN table :
        /\ ret[p].kind = "BlockErrorDefault"
        /\ ret[o].kind = "EmptyQueueError"
        /\ table[i].locked /\ table[i].lock_time >= now

\* ---------------------------------------------------------------- C16
\* the readAll() iteration of the draining consumer has ended by itself
Drained == pc[Drainer] = "idle" /\ ret[Drainer].kind = "StopIteration"

\* C16: with a loop body that always succeeds and nobody else changing the
\* table, an iteration over readAll() ends, by StopIteration and not by
\* EmptyQueueError; no id is yielded twice; the ids that were eligible when
\* readAll() was called are yielded in increasing order and all of them have
\* been yielded when the iteration ends; and no yielded row is in the table
\* once the loop has gone past it.
C16_DrainTerminates ==
    /\ (pc[Drainer] # "idle") ~> Drained
    /\ [](ret[Drainer].kind # "EmptyQueueError")
    /\ [](LET seen == drain[Drainer].seen
              start == drain[Drainer].start
          IN  /\ \A a \in 1..Len(seen) : \A b \in 1..Len(seen) :
                   /\ a # b => seen[a] # seen[b]
                   /\ (a < b /\ seen[a] \in start /\ seen[b] \in start)
                         => seen[a] < seen[b]
              /\ \A a \in 1..Len(seen) :
                   (a < Len(seen) \/ pc[Drainer] \in {"next", "idle"})
                      => seen[a] \notin DOMAIN table
              /\ Drained => \A i \in start : \E a \in 1..Len(seen) : seen[a] = i)

\* an iteration ended after yielding rows 1 and 2, both eligible at the call
C16_Witness ==
    /\ Drained
    /\ drain[Drainer].start = {1, 2}
    /\ drain[Drainer].seen = <<1, 2>>
    /\ table = <<>>

\* ---------------------------------------------------------------- C17
\* the draining consumer's loop body ends in this step
LeavesLoop == pc[Drainer] = "inloop" /\ pc'[Drainer] # "inloop"

\* C17: when the loop body of an iteration over readAll() ends without an
\* error, by reaching its end or by break, the yielded row is deleted; the row
\* is kept (with changeTimeout(id, 0)) only when the loop body raised.
C17_DrainAcks ==
    [][LeavesLoop
       => /\ ret'[Drainer].kind \in {"exited", "break"}
                => ret[Drainer].id \notin DOMAIN table'
          /\ ret[Drainer].id \in DOMAIN table'
                => ret'[Drainer].kind = "LoopError"]_vars

\* ---------------------------------------------------------------- C18
\* C18: a send adds exactly one row, under an id that no row has and that is
\* greater than every id handed out before (also ids of deleted rows); the
\* row is unlocked and has the handle's queue, the message, and as timeout the
\* timeout argument or, when that is None, the handle's timeout; every other
\* row stays as it is.
C18_Send ==
    /\ [][/\ \A c \in SendCalls :
               (nextId' # nextId /\ Send(c[1], c[2], c[3]))
               => /\ nextId \notin DOMAIN table
                  /\ DOMAIN table' = DOMAIN table \cup {nextId}
                  /\ \A j \in DOMAIN table : table'[j] = table[j]
                  /\ table'[nextId].queue = c[1]
                  /\ table'[nextId].message = c[2]
                  /\ table'[nextId].timeout =
                        IF c[3] = <<>> THEN HandleTimeout ELSE c[3][1]
                  /\ ~table'[nextId].locked
                  /\ nextId' > nextId
           /\ nextId' >= nextId]_vars
    /\ [](\A i \in Ids : (i \in DOMAIN table \/ holder[i] # Nobody) => i < nextId)

\* after the first message was leased and deleted, a message sent with
\* timeout=0 has id 2
C18_Witness ==
    /\ nextId = 3
    /\ holder[1] # Nobody
    /\ 1 \notin DOMAIN table
    /\ 2 \in DOMAIN table
    /\ table[2] = NewRow("qa", "b", 0)

\* ---------------------------------------------------------------- C19
\* C19: the UPDATE of every _readUnhandled call, first lease or re-lease,
\* computes the lock time as the store's clock plus the timeout stored in the
\* selected row, and the COMMIT leaves that row locked with that lock time
\* and otherwise as it was.
C19_LeaseExpiry ==
    [][\A p \in Procs :
         /\ (pc[p] = "selected" /\ pc'[p] = "updated")
              => /\ txn[p].id \in DOMAIN table
                 /\ txn'[p].lock_time = now + table[txn[p].id].timeout
         /\ Returns(p)
              => table'[txn[p].id] =
                    [table[txn[p].id] EXCEPT !.locked = TRUE,
                                             !.lock_time = txn[p].lock_time]]_vars

\* a row sent with timeout=0 through a handle whose timeout is not 0 was
\* returned to one consumer, expired, and has just been returned to the other
\* one: its lock time is the clock again
C19_Witness ==
    \E i \in DOMAIN table : \E p \in Procs : \E o \in Procs \ {p} :
        /\ table[i].timeout = 0 /\ HandleTimeout # 0
        /\ table[i].locked /\ table[i].lock_time = now
        /\ holder[i] = p
        /\ ret[p].kind = "msg" /\ ret[p].id = i
        /\ ret[o].kind = "msg" /\ ret[o].id = i

\* ---------------------------------------------------------------- C20
\* C20: changeTimeout(id, s) on a row of the table sets that row's lock time
\* to the store's clock plus s; the row's locked flag, message, queue and
\* timeout, the set of ids, every other row and the id counter stay the same.
C20_ChangeTimeoutFrame ==
    [][\A i \in DOMAIN table : \A s \in ChangeTimeouts :
         ChangeTimeout(i, s)
         => /\ DOMAIN table' = DOMAIN table
            /\ table'[i].lock_time = now + s
            /\ table'[i].locked = table[i].locked
            /\ table'[i].message = table[i].message
            /\ table'[i].queue = table[i].queue
            /\ table'[i].timeout = table[i].timeout
            /\ \A j \in DOMAIN table \ {i} : table'[j] = table[j]
            /\ nextId' = nextId]_vars

\* changeTimeout(id, 1) was called for a row that was never leased, which is
\* still unlocked, next to a leased row of the same queue
C20_Witness ==
    \E i \in DOMAIN table : \E j \in DOMAIN table :
        /\ holder[i] = Nobody
        /\ ~table[i].locked
        /\ table[i].lock_time = now + 1
        /\ table[j].locked
        /\ table[j].queue = table[i].queue


\* ---------------------------------------------------------------- C21
\* consumer p's _readUnhandled call ends with an error of the store in this step
Fails(p) ==
    /\ pc[p] \in TxnSteps
    /\ ret'[p] # ret[p] \/ pc'[p] # pc[p]
    /\ pc'[p] = "idle" /\ ret'[p].kind = "StoreFailure"

ReturnedIds == {j \in Ids : holder[j] # Nobody}

\* C22: on one queue, over all consumers and in the order in which the
\* _readUnhandled transactions commit, a call returns an id above every id
\* returned before, unless the row it returns is locked with a lock time in
\* the past (its lease ran out or changeTimeout released it); so while no row
\* is ever in that condition the ids come in strictly increasing order.
C22_FifoWithoutExpiry ==
    [][\A p \in Procs :
         Returns(p) =>
           \/ \A j \in ReturnedIds : j < txn[p].id
           \/ /\ txn[p].id \in DOMAIN table
              /\ table[txn[p].id].locked
              /\ table[txn[p].id].lock_time < now]_vars

\* two concurrent calls: the second waited for the row the first had
\* selected, then took the next row; both leases are held and fresh
C22_Witness ==
    \E p \in Procs : \E o \in Procs \ {p} :
        /\ ret[p].kind = "msg" /\ ret[p].id = 1 /\ holder[1] = p
        /\ ret[o].kind = "msg" /\ ret[o].id = 2 /\ holder[2] = o
        /\ ret[o].waitedFor = 1
        /\ \A i \in {1, 2} : i \in DOMAIN table /\ table[i].locked
                             /\ table[i].lock_time >= now


\* ---------------------------------------------------------------- C23
\* C23: MessageQueue(..., create=True) on an existing table keeps the table
\* with every row of every queue and its AUTO_INCREMENT counter;
\* MessageQueue(..., drop=True) without a table leaves no table and does not
\* raise; MessageQueue(..., drop=True, create=True) drops first and leaves
\* an existing, empty table; no constructor call raises.
C23_SchemaLifecycle ==
    /\ [][/\ (schema.exists /\ Construct(FALSE, TRUE))
               => /\ table' = table /\ nextId' = nextId
                  /\ schema'.exists /\ schema'.outcome = "ok"
          /\ (~schema.exists /\ Construct(TRUE, FALSE))
               => /\ table' = table /\ ~schema'.exists
                  /\ schema'.outcome = "ok"
          /\ Construct(TRUE, TRUE)
               => /\ schema'.exists /\ table' = <<>> /\ nextId' = 1
                  /\ schema'.outcome = "ok"]_vars
    /\ [](schema.outcome # "raised" /\ (~schema.exists => table = <<>>))

\* a handle was constructed with drop and create on a table that held two
\* rows: the table exists and is empty
C23_Witness ==
    /\ schema.drop /\ schema.create /\ schema.before = 2
    /\ schema.exists /\ schema.outcome = "ok"
    /\ table = <<>>


\* ---------------------------------------------------------------- C24
\* process p enters, leaves the with-statement of tmpfile() / tmpdir() in this step
Enters(p, kind) == ctx[p].pc = "out" /\ ctx'[p].pc = "in" /\ ctx'[p].kind = kind
Exits(p, kind) == ctx[p].pc = "in" /\ ctx[p].kind = kind /\ ctx'[p].pc = "out"

\* C24: when the with-block of tmpfile() is entered nothing exists at the
\* yielded path and tmpfile has created nothing; when the block ends,
\* normally or by an error, no regular file is at the yielded path, and no
\* other path has changed.
C24_Tmpfile ==
    [][\A p \in Procs :
         /\ Enters(p, "tmpfile") => ctx'[p].path \notin DOMAIN fs' /\ fs' = fs
         /\ Exits(p, "tmpfile") =>
              /\ ~IsFile(fs', ctx[p].path)
              /\ \A q \in Paths \ {ctx[p].path} :
                   (q \in DOMAIN fs <=> q \in DOMAIN fs')
                     /\ (q \in DOMAIN fs => fs'[q] = fs[q])]_vars

\* a block that wrote a regular file at its path ended by an error while the
\* other process was in a block of its own with its file written: the first
\* path is gone, the other file is there
C24_Witness ==
    \E p \in Procs : \E o \in Procs \ {p} :
        /\ ctx[p].pc = "out" /\ ctx[p].kind = "tmpfile"
        /\ ctx[p].made = 1 /\ ctx[p].how = "raised"
        /\ ctx[o].pc = "in" /\ ctx[o].kind = "tmpfile" /\ IsFile(fs, ctx[o].path)
        /\ Cardinality(DOMAIN fs) = 1


\* ---------------------------------------------------------------- C25
\* C25: from the step that enters the with-block of tmpdir() to the step
\* that leaves it the yielded path is a directory; when the block ends,
\* normally or by an error, neither the directory nor anything under it
\* exists, and the paths that are not under it have not changed.
C25_Tmpdir ==
    /\ [](\A p \in Procs :
            (ctx[p].pc = "in" /\ ctx[p].kind = "tmpdir") => IsDir(fs, ctx[p].path))
    /\ [][\A p \in Procs :
            /\ Enters(p, "tmpdir") => ctx'[p].path \notin DOMAIN fs
            /\ Exits(p, "tmpdir") =>
                 \A q \in Paths :
                   IF IsPrefix(ctx[p].path, q) THEN q \notin DOMAIN fs'
                   ELSE (q \in DOMAIN fs <=> q \in DOMAIN fs')
                          /\ (q \in DOMAIN fs => fs'[q] = fs[q])]_vars

\* a block that wrote files under its directory ended by an error, while the
\* directory of the other process holds a file in a subdirectory: only the
\* other directory, its subdirectory and that file exist
C25_Witness ==
    \E p \in Procs : \E o \in Procs \ {p} :
        /\ ctx[p].pc = "out" /\ ctx[p].kind = "tmpdir"
        /\ ctx[p].made = 1 /\ ctx[p].how = "raised"
        /\ ctx[o].pc = "in" /\ ctx[o].kind = "tmpdir"
        /\ \E n \in BlockNames, m \in BlockNames :
             /\ IsFile(fs, ctx[o].path \o <<n, m>>)
             /\ DOMAIN fs = {ctx[o].path, ctx[o].path \o <<n>>, ctx[o].path \o <<n, m>>}


\* ---------------------------------------------------------------- C26
\* the columns that are set when the row is inserted
Sent(row) == <<row.queue, row.message, row.timeout, row.create_time>>

\* C26: the step in which a _readUnhandled call commits changes one row, the
\* one with the id it returns, and of that row only locked and lock_time;
\* under every sequence of _readUnhandled calls, changeTimeout calls and
\* read() blocks that raise, the rows keep their ids, and queue, message,
\* timeout and create_time of every row stay as they were sent.
C26_LeaseFrame ==
    [][/\ \A p \in Procs :
            Returns(p) =>
              /\ ret'[p].kind = "msg" /\ ret'[p].id = txn[p].id
              /\ ret'[p].id \in DOMAIN table
              /\ table'[ret'[p].id].locked
              /\ \A j \in DOMAIN table \ {ret'[p].id} : table'[j] = table[j]
       /\ DOMAIN table' = DOMAIN table
       /\ \A i \in DOMAIN table : Sent(table'[i]) = Sent(table[i])]_vars

\* the row sent before the clock of the model began has been leased, released
\* by a read() block that raised, and leased again by the other consumer,
\* while the other row has not been touched
C26_Witness ==
    \E p \in Procs : \E o \in Procs \ {p} :
        /\ DOMAIN table = {1, 2}
        /\ table[1].create_time = 0 /\ table[1].locked /\ holder[1] = o
        /\ ret[p].kind = "BlockError" /\ ret[o].kind = "msg" /\ ret[o].id = 1
        /\ ~table[2].locked /\ table[2].lock_time = 0


\* ---------------------------------------------------------------- C27
\* the ids this readAll() has yielded whose rows are still in the table
Unacked == {i \in DOMAIN table : \E a \in 1..Len(drain[Drainer].seen) :
                                   drain[Drainer].seen[a] = i}

\* the id yielded last
LastSeen == drain[Drainer].seen[Len(drain[Drainer].seen)]

\* C27: when readAll() goes to the SELECT of its next _readUnhandled call the
\* row it yielded before is deleted; of the rows one readAll() has yielded at
\* most one is in the table at any time, the one yielded last, and only while
\* the loop body runs or after the loop was left by break or by an error; a
\* loop body that raises changes no row but the one yielded last, and of that
\* row only lock_time, which becomes CURRENT_TIMESTAMP.
C27_DrainOneAtATime ==
    /\ [][/\ (pc[Drainer] = "next" /\ pc'[Drainer] # "next")
               => /\ Unacked = {}
                  /\ ret[Drainer].kind = "exited"
          /\ (pc[Drainer] = "inloop" /\ pc'[Drainer] = "idle"
              /\ ret'[Drainer].kind = "LoopError")
               => /\ DOMAIN table' = DOMAIN table
                  /\ \A j \in DOMAIN table \ {LastSeen} : table'[j] = table[j]
                  /\ ret'[Drainer].id = LastSeen
                  /\ table'[LastSeen] \in
                       {table[LastSeen], [table[LastSeen] EXCEPT !.lock_time = now]}]_vars
    /\ [](/\ Cardinality(Unacked) <= 1
          /\ Unacked # {} =>
               /\ Unacked = {LastSeen}
               /\ \/ pc[Drainer] = "inloop"
                  \/ pc[Drainer] = "idle" /\ ret[Drainer].kind \in {"break", "LoopError"})

\* the loop body raised in the second iteration: the first row is deleted,
\* the second is in the table with its lock time set to now
C27_Witness ==
    /\ ret[Drainer].kind = "LoopError"
    /\ Len(drain[Drainer].seen) = 2
    /\ drain[Drainer].seen[1] \notin DOMAIN table
    /\ LastSeen \in DOMAIN table
    /\ table[LastSeen].locked /\ table[LastSeen].lock_time = now


\* ---------------------------------------------------------------- C28
\* C28: a row is unlocked exactly as long as no _readUnhandled call has
\* returned it; no step (changeTimeout, a read() block that raises, the
\* passing of the lock time, a later lease) takes a row that is in the table
\* from locked to unlocked; so a locked row matches the SELECT of its queue
\* exactly when its lock_time is before CURRENT_TIMESTAMP.
C28_LockedMonotone ==
    /\ [][\A i \in DOMAIN table \cap DOMAIN table' :
            table[i].locked => table'[i].locked]_vars
    /\ [](\A i \in DOMAIN table :
            /\ table[i].locked <=> holder[i] # Nobody
            /\ table[i].locked =>
                 \A q \in Queues :
                   Eligible(table[i], q)
                     <=> (table[i].queue = q /\ table[i].lock_time < now))

\* a row whose read() block raised a second ago, and which was leased twice
\* before: it is locked still, and the SELECT matches it
C28_Witness ==
    \E p \in Procs : \E i \in DOMAIN table :
        /\ ret[p].kind = "BlockError" /\ holder[i] = p
        /\ ret[CHOOSE o \in Procs : o # p].kind = "msg"
        /\ ret[CHOOSE o \in Procs : o # p].id = i
        /\ table[i].locked /\ table[i].lock_time < now
        /\ i \in Candidates(table[i].queue)


\* ---------------------------------------------------------------- C29
\* how many times a call was made on the connection in the scope
Count(calls, c) == Len(SelectSeq(calls, LAMBDA x : x = c))

\* C29: a doTransaction scope that has ended made exactly one call of commit
\* or rollback, as its last call on the connection.  It is commit, and the
\* with-statement returns (unless commit itself raised), when the with-block
\* ended without an exception; it is rollback, and an exception reaches the
\* caller, when the with-block or START TRANSACTION raised, the exception
\* being the one that was raised whenever conn.rollback() returned.  Inside
\* the with-block neither call has been made, and START TRANSACTION was
\* executed, first, exactly when start is true.
C29_CommitOrRollback ==
    \A p \in Procs :
      LET t == tx[p]
          commits == Count(t.calls, "commit")
          rollbacks == Count(t.calls, "rollback")
      IN  /\ (t.pc = "out" /\ t.out # "none") =>
                /\ commits + rollbacks = 1
                /\ t.calls[Len(t.calls)] \in {"commit", "rollback"}
                /\ t.exc = "" => commits = 1 /\ t.out \in {"returned", "CommitError"}
                /\ t.exc # "" => rollbacks = 1 /\ t.out \in {t.exc, "RollbackError"}
          /\ t.pc = "body" => commits + rollbacks = 0 /\ t.exc = ""
          /\ t.calls # <<>> => (t.start <=> t.calls[1] = "START")
          /\ Count(t.calls, "START") = IF t.start THEN 1 ELSE 0

\* one scope was rolled back because START TRANSACTION raised, another
\* because its block raised KeyboardInterrupt after a statement; in both the
\* exception raised is the one the caller gets
C29_Witness ==
    \E p \in Procs : \E o \in Procs \ {p} :
        /\ tx[p].pc = "out" /\ tx[p].calls = <<"START", "rollback">>
        /\ tx[p].out = "StoreError"
        /\ tx[o].pc = "out" /\ tx[o].calls = <<"START", "statement", "rollback">>
        /\ tx[o].exc = "KeyboardInterrupt" /\ tx[o].out = "KeyboardInterrupt"


\* ---------------------------------------------------------------- C30
\* the nodes joined to the nodes of S by a path of edges given so far
RECURSIVE Reach(_)
Reach(S) ==
    LET T == S \cup {m \in Nodes : \E n \in S : {n, m} \in edges}
    IN  IF T = S THEN S ELSE Reach(T)

\* C30: after every sequence of cluster() calls on a SimpleEdgeClusterer or
\* an EdgeClusterer, node n maps to cluster c in nodeIdToClusterId exactly
\* when n is in clusterIdToNodes[c], no node is in two clusters, the nodes
\* with a cluster are the nodes of the edges given, and two nodes have the
\* same cluster exactly when a path of the given edges, taken as undirected,
\* joins them.
C30_Clusters ==
    clusterer.kind # "none" =>
      LET nodeIdToClusterId == clusterer.nodeIdToClusterId
          clusterIdToNodes == clusterer.clusterIdToNodes
      IN  /\ \A n \in Nodes : \A c \in 1..clusterer.nextClusterId :
                (n \in DOMAIN nodeIdToClusterId /\ nodeIdToClusterId[n] = c)
                  <=> (c \in DOMAIN clusterIdToNodes /\ n \in clusterIdToNodes[c])
          /\ DOMAIN clusterIdToNodes \subseteq 1..(clusterer.nextClusterId - 1)
          /\ \A c \in DOMAIN clusterIdToNodes : \A d \in DOMAIN clusterIdToNodes :
                c # d => clusterIdToNodes[c] \cap clusterIdToNodes[d] = {}
          /\ DOMAIN nodeIdToClusterId = UNION edges
          /\ \A n \in Nodes : \A m \in Nodes :
                (/\ n \in DOMAIN nodeIdToClusterId
                 /\ m \in DOMAIN nodeIdToClusterId
                 /\ nodeIdToClusterId[n] = nodeIdToClusterId[m])
                  <=> (n \in UNION edges /\ m \in Reach({n}))

\* an EdgeClusterer was given an edge from a node to itself, an edge between
\* two other nodes, and an edge that joins the two clusters: the cluster of
\* one node went into the cluster of two
C30_Witness ==
    /\ clusterer.kind = "EdgeClusterer"
    /\ clusterer.nextClusterId = 3
    /\ DOMAIN clusterer.clusterIdToNodes = {2}
    /\ Cardinality(clusterer.clusterIdToNodes[2]) = 3
    /\ clusterer.clusterIdToNumEdges[2] = 3

====
